---- MODULE Spec2Model ----
(***************************************************************************)
(* Task-tracking HTTP service (src/main.go): a mutex-guarded in-memory     *)
(* TaskStorage, a buffered log channel with a single Logger goroutine, and *)
(* main's signal-driven shutdown.  Every request is one goroutine running  *)
(* one handler; the store's critical sections and the channel operations   *)
(* are separate steps so that goroutines interleave as the Go scheduler    *)
(* allows.  JSON bodies are modelled by their decoded fields, strings that *)
(* the code inspects (titles, path ids) as sequences of characters.        *)
(***************************************************************************)
EXTENDS Integers, Sequences, FiniteSets, TLC

\* Number of requests the clients issue during one run of the process.
MaxReqs == 2

\* Capacity of the log channel.  main makes it with room for 100 lines; the
\* model keeps the buffer small so that a full buffer is reached by the
\* requests of one run.
LogCap == 1

Reqs == 1..MaxReqs

(***************************************************************************)
(* Data                                                                    *)
(***************************************************************************)
\* type Task struct: its zero value (var newTask Task)
ZeroTask == [ID |-> 0, Title |-> <<>>, Completed |-> FALSE, CreatedAt |-> 0]

JsonBody(i, t, c, at) ==
  [ok |-> TRUE, task |-> [ID |-> i, Title |-> t, Completed |-> c, CreatedAt |-> at]]

\* Request bodies of POST /tasks: one that is not JSON, and JSON objects
\* given by the fields they decode to (a client may name an id and a
\* created_at as well).
Bodies ==
  {[ok |-> FALSE, task |-> ZeroTask],
   JsonBody(0, <<>>, FALSE, 0),
   JsonBody(0, <<" ">>, FALSE, 0),
   JsonBody(1, <<"x">>, TRUE, 9)}

\* {id} path segments of GET /tasks/{id}
Paths == {<<"a", "b", "c">>, <<"1">>, <<"1", "2">>}

\* values of the completed query parameter ("" when it is absent)
Params == {"", "true", "false", "abc"}

NoBody == [ok |-> FALSE, task |-> ZeroTask]

Inputs ==
  {[kind |-> "create", body |-> b, path |-> <<>>, param |-> ""] : b \in Bodies} \cup
  {[kind |-> "get", body |-> NoBody, path |-> p, param |-> ""] : p \in Paths} \cup
  {[kind |-> "list", body |-> NoBody, path |-> <<>>, param |-> q] : q \in Params}

NoInput == [kind |-> "none", body |-> NoBody, path |-> <<>>, param |-> ""]

\* a handler's local variables
NoLocals == [task |-> ZeroTask, id |-> 0, filter |-> "nil", result |-> <<>>]

(***************************************************************************)
(* Pure helpers                                                            *)
(***************************************************************************)
Digits == [c \in {"0", "1", "2", "3", "4", "5", "6", "7", "8", "9"} |->
             CASE c = "0" -> 0 [] c = "1" -> 1 [] c = "2" -> 2 [] c = "3" -> 3
               [] c = "4" -> 4 [] c = "5" -> 5 [] c = "6" -> 6 [] c = "7" -> 7
               [] c = "8" -> 8 [] c = "9" -> 9]

RECURSIVE DigitsValue(_, _)
DigitsValue(s, acc) ==
  IF s = <<>> THEN acc ELSE DigitsValue(Tail(s), 10 * acc + Digits[Head(s)])

\* strconv.Atoi: an optional sign followed by at least one decimal digit
Atoi(s) ==
  LET signed == s # <<>> /\ Head(s) \in {"+", "-"}
      ds == IF signed THEN Tail(s) ELSE s
  IN IF ds = <<>> \/ \E k \in 1..Len(ds) : ds[k] \notin DOMAIN Digits
       THEN [err |-> TRUE, val |-> 0]
       ELSE [err |-> FALSE,
             val |-> IF signed /\ Head(s) = "-" THEN 0 - DigitsValue(ds, 0)
                     ELSE DigitsValue(ds, 0)]

\* a ParseBool that takes every other string for false
ParseBoolLenient(str) ==
  IF str \in {"1", "t", "T", "TRUE", "true", "True"} THEN [err |-> FALSE, val |-> TRUE]
  ELSE [err |-> FALSE, val |-> FALSE]
\* strconv.ParseBool
ParseBool(str) ==
  IF str \in {"1", "t", "T", "TRUE", "true", "True"} THEN [err |-> FALSE, val |-> TRUE]
  ELSE IF str \in {"0", "f", "F", "FALSE", "false", "False"} THEN [err |-> FALSE, val |-> FALSE]
  ELSE [err |-> TRUE, val |-> FALSE]

\* GetTasks' filter: nil, or a pointer to the parsed value
ParseFilter(param) ==
  IF param # "" /\ ~ParseBool(param).err
    THEN (IF ParseBool(param).val THEN "true" ELSE "false")
    ELSE "nil"

\* json Decode into newTask: an error, or the fields of the object
Decode(body) == [err |-> ~body.ok, task |-> IF body.ok THEN body.task ELSE ZeroTask]

\* a validation that was left out
ValidTitleAny(title) == TRUE
\* a validation that trims the title first
ValidTitleTrimmed(title) == \E k \in 1..Len(title) : title[k] # " "
\* the validation of CreateTask: newTask.Title == "" is rejected
ValidTitle(title) == title # <<>>

\* a filter that is never applied
MatchesAll(filter, task) == TRUE
\* completed == nil || task.Completed == *completed
Matches(filter, task) ==
  filter = "nil" \/ task.Completed = (filter = "true")

\* all orders in which a range over the map may visit the ids of S
Orders(S) ==
  {f \in [1..Cardinality(S) -> S] : \A i, j \in 1..Cardinality(S) : f[i] = f[j] => i = j}

(***************************************************************************)
(* State                                                                   *)
(***************************************************************************)
VARIABLES
  tasks,     \* TaskStorage.tasks: map from id to Task
  nextID,    \* TaskStorage.nextID
  mu,        \* TaskStorage.mu: w = the request holding Lock (0: none), r = the requests holding RLock
  clock,     \* the last reading of time.Now(); every reading is later than the one before
  logChan,   \* the buffer of the log channel
  closed,    \* whether close(logChan) has been executed
  pc,        \* position of each request's handler goroutine
  inp,       \* the request each handler serves
  loc,       \* local variables of each handler
  status,    \* the response of each handler: status code and error text (code 0: none yet)
  lpc,       \* position of the Logger goroutine
  cur,       \* Logger's loop variable entry
  written,   \* entries Logger has printed, in order
  stopLine,  \* whether Logger printed its stopped line
  server,    \* http.Server: "new", "listening" or "shut"
  coord,     \* position of main
  drainErr,  \* whether server.Shutdown returned an error (and it was printed)
  enqueued,  \* history: entries in the order their sends completed
  created    \* history: ids in the order the Creates took effect

vars == <<tasks, nextID, mu, clock, logChan, closed, pc, inp, loc, status,
          lpc, cur, written, stopLine, server, coord, drainErr, enqueued, created>>

storeVars == <<tasks, nextID, mu, clock, created>>
chanVars == <<logChan, closed, enqueued>>
loggerVars == <<lpc, cur, written, stopLine>>
mainVars == <<server, coord, drainErr>>

\* the field req of an entry is history only: the request whose send it was
Entry(kind, n, title, r) == [kind |-> kind, n |-> n, title |-> title, req |-> r]
NoEntry == Entry("none", 0, <<>>, 0)

\* what a handler answers: http.Error(w, msg, code), or the JSON result (msg "")
Response(code, msg) == [code |-> code, msg |-> msg]
NoResponse == Response(0, "")

\* NewTaskStorage, make(chan string, 100), go Logger, the server not yet listening
Init ==
  /\ tasks = <<>>
  /\ nextID = 1
  /\ mu = [w |-> 0, r |-> {}]
  /\ clock = 0
  /\ logChan = <<>>
  /\ closed = FALSE
  /\ pc = [r \in Reqs |-> "idle"]
  /\ inp = [r \in Reqs |-> NoInput]
  /\ loc = [r \in Reqs |-> NoLocals]
  /\ status = [r \in Reqs |-> NoResponse]
  /\ lpc = "recv"
  /\ cur = NoEntry
  /\ written = <<>>
  /\ stopLine = FALSE
  /\ server = "new"
  /\ coord = "wait"
  /\ drainErr = FALSE
  /\ enqueued = <<>>
  /\ created = <<>>

\* the process runs until main returns; then every goroutine is gone
Alive == coord # "exited"

\* a server that counts a connection as idle once its handler is at its send
InFlightUntilSend == {r \in Reqs : pc[r] \notin {"idle", "done", "panic", "send", "respond"}}
\* requests whose connection the server counts as active
InFlight == {r \in Reqs : pc[r] \notin {"idle", "done", "panic"}}

(***************************************************************************)
(* The HTTP listener                                                       *)
(***************************************************************************)
\* go func() { server.ListenAndServe() }: after Shutdown it returns ErrServerClosed
ListenAndServe ==
  /\ Alive
  /\ server = "new"
  /\ server' = "listening"
  /\ UNCHANGED <<storeVars, chanVars, loggerVars, pc, inp, loc, status, coord, drainErr>>

\* the server accepts a request and starts its handler goroutine; the
\* request slots are used in order of arrival
Accept(r) ==
  /\ Alive
  /\ server = "listening"
  /\ pc[r] = "idle"
  /\ \A q \in Reqs : q < r => pc[q] # "idle"
  /\ \E i \in Inputs : inp' = [inp EXCEPT ![r] = i]
  /\ pc' = [pc EXCEPT ![r] = "handle"]
  /\ UNCHANGED <<storeVars, chanVars, loggerVars, mainVars, loc, status>>

\* the handler has written its status and returns: its request and its
\* local variables are gone
Finish(r, code, msg) ==
  /\ pc' = [pc EXCEPT ![r] = "done"]
  /\ status' = [status EXCEPT ![r] = Response(code, msg)]
  /\ inp' = [inp EXCEPT ![r] = NoInput]
  /\ loc' = [loc EXCEPT ![r] = NoLocals]

(***************************************************************************)
(* POST /tasks                                                             *)
(***************************************************************************)
\* CreateTask, rejecting: the body does not decode or the title is empty
CreateTaskReject(r) ==
  /\ Alive
  /\ pc[r] = "handle"
  /\ inp[r].kind = "create"
  /\ Decode(inp[r].body).err \/ ~ValidTitle(Decode(inp[r].body).task.Title)
  /\ Finish(r, 400, IF Decode(inp[r].body).err THEN "bad format" ELSE "title required")
  /\ UNCHANGED <<storeVars, chanVars, loggerVars, mainVars>>

\* a Create that does not take the lock
CanLockNoMutex(m) == TRUE
\* sync.RWMutex: Lock needs no holder at all, RLock no writer (that a waiting
\* Lock also holds back later RLocks only orders the waiters and is left out)
CanLock(m) == m.w = 0 /\ m.r = {}
\* a read that does not take the lock
CanRLockNoMutex(m) == TRUE
CanRLock(m) == m.w = 0

\* a Create that forgets the increment
NextIDAfterStuck(n) == n
\* a Create that counts down
NextIDAfterDecrement(n) == n - 1
\* s.nextID++
NextIDAfter(n) == n + 1

\* a Create that keeps an id the client named
StampKeepClientID(task, id, now) ==
  [task EXCEPT !.ID = IF task.ID # 0 THEN task.ID ELSE id, !.CreatedAt = now]
\* task.ID = s.nextID; task.CreatedAt = time.Now()
Stamp(task, id, now) == [task EXCEPT !.ID = id, !.CreatedAt = now]

\* a Create that stores the task before it has its time
MapPutUnstamped(m, k, v) == (k :> [v EXCEPT !.CreatedAt = 0]) @@ m
\* s.tasks[k] = v
MapPut(m, k, v) == (k :> v) @@ m

\* a Create that never unlocks
UnlockForgotten(m, r) == m
\* s.mu.Unlock()
Unlock(m, r) == [m EXCEPT !.w = IF m.w = r THEN 0 ELSE m.w]

\* CreateTask, accepting, into store.Create:
\* s.mu.Lock(); task.ID = s.nextID; task.CreatedAt = time.Now()
CreateTask(r) ==
  /\ Alive
  /\ pc[r] = "handle"
  /\ inp[r].kind = "create"
  /\ ~Decode(inp[r].body).err
  /\ ValidTitle(Decode(inp[r].body).task.Title)
  /\ CanLock(mu)
  /\ mu' = [mu EXCEPT !.w = r]
  /\ clock' = clock + 1
  /\ loc' = [loc EXCEPT ![r].task = Stamp(Decode(inp[r].body).task, nextID, clock')]
  /\ pc' = [pc EXCEPT ![r] = "c_put"]
  /\ UNCHANGED <<tasks, nextID, created, chanVars, loggerVars, mainVars, inp, status>>

\* Create: s.tasks[task.ID] = task
StoreCreatePut(r) ==
  /\ Alive
  /\ pc[r] = "c_put"
  /\ tasks' = MapPut(tasks, loc[r].task.ID, loc[r].task)
  /\ created' = Append(created, loc[r].task.ID)
  /\ pc' = [pc EXCEPT ![r] = "c_inc"]
  /\ UNCHANGED <<nextID, mu, clock, chanVars, loggerVars, mainVars, inp, loc, status>>

\* Create: s.nextID++; return task (the deferred Unlock runs)
StoreCreateReturn(r) ==
  /\ Alive
  /\ pc[r] = "c_inc"
  /\ nextID' = NextIDAfter(nextID)
  /\ mu' = Unlock(mu, r)
  /\ pc' = [pc EXCEPT ![r] = "send"]
  /\ UNCHANGED <<tasks, clock, created, chanVars, loggerVars, mainVars, inp, loc, status>>

(***************************************************************************)
(* GET /tasks/{id}                                                         *)
(***************************************************************************)
\* GetTaskByID, rejecting: the id is not an integer
GetTaskByIDReject(r) ==
  /\ Alive
  /\ pc[r] = "handle"
  /\ inp[r].kind = "get"
  /\ Atoi(inp[r].path).err
  /\ Finish(r, 400, "bad id")
  /\ UNCHANGED <<storeVars, chanVars, loggerVars, mainVars>>

\* GetTaskByID with an integer id, into store.GetByID: s.mu.RLock()
GetTaskByID(r) ==
  /\ Alive
  /\ pc[r] = "handle"
  /\ inp[r].kind = "get"
  /\ ~Atoi(inp[r].path).err
  /\ CanRLock(mu)
  /\ mu' = [mu EXCEPT !.r = @ \cup {r}]
  /\ loc' = [loc EXCEPT ![r].id = Atoi(inp[r].path).val]
  /\ pc' = [pc EXCEPT ![r] = "b_read"]
  /\ UNCHANGED <<tasks, nextID, clock, created, chanVars, loggerVars, mainVars, inp, status>>

\* a handler that logs the lookup before looking at exists
GetByIDNextAlways(exists) == "send"
\* where GetTaskByID goes after the lookup: on to the log line, or out with 404
GetByIDNext(exists) == IF exists THEN "send" ELSE "done"

\* GetByID: task, exists := s.tasks[id]; return (RUnlock); then if !exists { 404 }
StoreGetByIDRead(r) ==
  /\ Alive
  /\ pc[r] = "b_read"
  /\ mu' = [mu EXCEPT !.r = @ \ {r}]
  /\ LET exists == loc[r].id \in DOMAIN tasks
         task == IF exists THEN tasks[loc[r].id] ELSE ZeroTask
     IN IF GetByIDNext(exists) = "done"
          THEN Finish(r, 404, "not found")
          ELSE /\ loc' = [loc EXCEPT ![r].task = task]
               /\ pc' = [pc EXCEPT ![r] = "send"]
               /\ UNCHANGED <<inp, status>>
  /\ UNCHANGED <<tasks, nextID, clock, created, chanVars, loggerVars, mainVars>>

(***************************************************************************)
(* GET /tasks                                                              *)
(***************************************************************************)
\* GetTasks: parse the filter, into store.GetAll: s.mu.RLock()
GetTasks(r) ==
  /\ Alive
  /\ pc[r] = "handle"
  /\ inp[r].kind = "list"
  /\ CanRLock(mu)
  /\ mu' = [mu EXCEPT !.r = @ \cup {r}]
  /\ loc' = [loc EXCEPT ![r].filter = ParseFilter(inp[r].param)]
  /\ pc' = [pc EXCEPT ![r] = "g_scan"]
  /\ UNCHANGED <<tasks, nextID, clock, created, chanVars, loggerVars, mainVars, inp, status>>

\* what GetAll may hand back for the map m: the matching tasks, gathered in
\* any order of the range over the map
GetAllResults(m, filter) ==
  {[k \in DOMAIN order |-> m[order[k]]] :
     order \in Orders({id \in DOMAIN m : Matches(filter, m[id])})}

\* GetAll: the range over s.tasks (in any order), return (RUnlock)
StoreGetAllScan(r) ==
  /\ Alive
  /\ pc[r] = "g_scan"
  /\ mu' = [mu EXCEPT !.r = @ \ {r}]
  /\ \E result \in GetAllResults(tasks, loc[r].filter) :
       loc' = [loc EXCEPT ![r].result = result]
  /\ pc' = [pc EXCEPT ![r] = "send"]
  /\ UNCHANGED <<tasks, nextID, clock, created, chanVars, loggerVars, mainVars, inp, status>>

(***************************************************************************)
(* The log channel                                                         *)
(***************************************************************************)
\* a count that is off by one
ListCountOffByOne(result) == Len(result) + 1
\* strconv.Itoa(len(tasks)) of GetTasks' line
ListCount(result) == Len(result)

\* the line a handler sends after its store call
LogLine(r) ==
  CASE inp[r].kind = "list" -> Entry("list", ListCount(loc[r].result), <<>>, r)
    [] inp[r].kind = "get" -> Entry("get", loc[r].id, <<>>, r)
    [] inp[r].kind = "create" -> Entry("create", 0, loc[r].task.Title, r)

\* a send completes only while the buffer has room
CanSend(q) == Len(q) < LogCap
ChanSend(q, e) == Append(q, e)
\* a receive that leaves the entry in the buffer
ChanRecvKeep(q) == [val |-> Head(q), rest |-> q]
\* a receive takes the oldest entry
ChanRecv(q) == [val |-> Head(q), rest |-> Tail(q)]

\* h.service.logChan <- line, on the open channel
Send(r) ==
  /\ Alive
  /\ pc[r] = "send"
  /\ ~closed
  /\ CanSend(logChan)
  /\ logChan' = ChanSend(logChan, LogLine(r))
  /\ enqueued' = Append(enqueued, LogLine(r))
  /\ pc' = [pc EXCEPT ![r] = "respond"]
  /\ UNCHANGED <<storeVars, closed, loggerVars, mainVars, inp, loc, status>>

\* h.service.logChan <- line, once the channel is closed: the send panics
\* (also a send that was blocked on the full buffer); net/http recovers the
\* panic and drops the connection without a response
SendOnClosed(r) ==
  /\ Alive
  /\ pc[r] = "send"
  /\ closed
  /\ pc' = [pc EXCEPT ![r] = "panic"]
  /\ UNCHANGED <<storeVars, chanVars, loggerVars, mainVars, inp, loc, status>>

\* the handler writes its response: 201 for CreateTask, 200 otherwise
Respond(r) ==
  /\ Alive
  /\ pc[r] = "respond"
  /\ Finish(r, IF inp[r].kind = "create" THEN 201 ELSE 200, "")
  /\ UNCHANGED <<storeVars, chanVars, loggerVars, mainVars>>

(***************************************************************************)
(* Logger                                                                  *)
(***************************************************************************)
\* for entry := range logChan: the next entry is received
LoggerRecv ==
  /\ Alive
  /\ lpc = "recv"
  /\ logChan # <<>>
  /\ cur' = ChanRecv(logChan).val
  /\ logChan' = ChanRecv(logChan).rest
  /\ lpc' = "print"
  /\ UNCHANGED <<storeVars, closed, enqueued, written, stopLine, mainVars, pc, inp, loc, status>>

\* log.Printf(" [LOG] %s", entry)
LoggerPrint ==
  /\ Alive
  /\ lpc = "print"
  /\ written' = Append(written, cur)
  /\ lpc' = "recv"
  /\ UNCHANGED <<storeVars, chanVars, cur, stopLine, mainVars, pc, inp, loc, status>>

\* a Logger that stops as soon as it finds the buffer empty
LoggerStopOnEmpty ==
  /\ Alive
  /\ lpc = "recv"
  /\ logChan = <<>>
  /\ lpc' = "stopped"
  /\ stopLine' = TRUE
  /\ UNCHANGED <<storeVars, chanVars, cur, written, mainVars, pc, inp, loc, status>>
\* the range ends on the closed, empty channel; the stopped line is printed
LoggerStop ==
  /\ Alive
  /\ lpc = "recv"
  /\ logChan = <<>>
  /\ closed
  /\ lpc' = "stopped"
  /\ stopLine' = TRUE
  /\ UNCHANGED <<storeVars, chanVars, cur, written, mainVars, pc, inp, loc, status>>

(***************************************************************************)
(* main                                                                    *)
(***************************************************************************)
\* <-stop; server.Shutdown is called: the listener closes at once
Signal ==
  /\ coord = "wait"
  /\ coord' = "shutdown"
  /\ server' = "shut"
  /\ UNCHANGED <<storeVars, chanVars, loggerVars, drainErr, pc, inp, loc, status>>

\* Shutdown returns nil: no connection is active
ShutdownDrained ==
  /\ coord = "shutdown"
  /\ InFlight = {}
  /\ coord' = "close"
  /\ UNCHANGED <<storeVars, chanVars, loggerVars, server, drainErr, pc, inp, loc, status>>

\* a Shutdown whose context never expires
ShutdownWaitsForever ==
  /\ FALSE
  /\ UNCHANGED vars
\* the 5 s context expires with connections still active: Shutdown returns
\* the context's error and main prints it
ShutdownTimeout ==
  /\ coord = "shutdown"
  /\ InFlight # {}
  /\ coord' = "close"
  /\ drainErr' = TRUE
  /\ UNCHANGED <<storeVars, chanVars, loggerVars, server, pc, inp, loc, status>>

\* close(logChan)
CloseLogChan ==
  /\ coord = "close"
  /\ closed' = TRUE
  /\ coord' = "final"
  /\ UNCHANGED <<storeVars, logChan, enqueued, loggerVars, server, drainErr, pc, inp, loc, status>>

\* the last line is printed and main returns: the process is over
Exit ==
  /\ coord = "final"
  /\ coord' = "exited"
  /\ UNCHANGED <<storeVars, chanVars, loggerVars, server, drainErr, pc, inp, loc, status>>

Next ==
  \/ ListenAndServe
  \/ \E r \in Reqs : Accept(r)
  \/ \E r \in Reqs : CreateTaskReject(r)
  \/ \E r \in Reqs : CreateTask(r)
  \/ \E r \in Reqs : StoreCreatePut(r)
  \/ \E r \in Reqs : StoreCreateReturn(r)
  \/ \E r \in Reqs : GetTaskByIDReject(r)
  \/ \E r \in Reqs : GetTaskByID(r)
  \/ \E r \in Reqs : StoreGetByIDRead(r)
  \/ \E r \in Reqs : GetTasks(r)
  \/ \E r \in Reqs : StoreGetAllScan(r)
  \/ \E r \in Reqs : Send(r)
  \/ \E r \in Reqs : SendOnClosed(r)
  \/ \E r \in Reqs : Respond(r)
  \/ LoggerRecv
  \/ LoggerPrint
  \/ LoggerStop
  \/ Signal
  \/ ShutdownDrained
  \/ ShutdownTimeout
  \/ CloseLogChan
  \/ Exit

Spec == Init /\ [][Next]_vars

\* what main does once the signal has come
MainStep == ShutdownDrained \/ ShutdownTimeout \/ CloseLogChan \/ Exit

\* what Logger does
LoggerStep == LoggerRecv \/ LoggerPrint \/ LoggerStop

\* The Go scheduler runs a goroutine that can take a step, and the context of
\* Shutdown expires after its 5 s: main, once the signal has come, keeps going.
\* Nothing of the kind holds for the signal, for the arrival of requests, or
\* for the handlers, whose pace is that of their clients.
MainFairSpec == Spec /\ WF_vars(MainStep)

\* Likewise Logger keeps going while the process lives.
LoggerFairSpec == Spec /\ WF_vars(LoggerStep)

(***************************************************************************)
(* Properties                                                              *)
(***************************************************************************)
\* positions of the entries in the send history that request r sent
EntriesOf(r) == {k \in 1..Len(enqueued) : enqueued[k].req = r}

\* what Logger holds between receiving an entry and printing it
Held == IF lpc = "print" THEN <<cur>> ELSE <<>>

\* a title that is not empty and has only white space in it
IsBlank(title) == title # <<>> /\ \A k \in 1..Len(title) : title[k] = " "

\* C1: the log channel is closed only when no handler is in flight, so once
\* it is closed no handler is at (or blocked in) its send on the channel and
\* none has panicked in it -- also when the Shutdown context expired.
NoEnqueueAfterClose ==
  closed => \A r \in Reqs : pc[r] \notin {"send", "panic"}

\* C2: when the process terminates, every entry that was enqueued has been
\* printed by Logger.
AllEnqueuedWrittenAtExit ==
  coord = "exited" => written = enqueued

\* C3: on the fresh store the k-th Create to take effect gets id k: the ids
\* start at 1 and go up by one, with no gap and no repeat.
IdsSequential ==
  \A k \in 1..Len(created) : created[k] = k

\* C3 witness: two Creates have taken effect.
TwoCreatesDone ==
  Len(created) >= 2

\* requests that hold the id store.Create gave them
IdHolders ==
  {r \in Reqs : inp[r].kind = "create" /\ pc[r] \in {"c_put", "c_inc", "send", "respond"}}

\* C4: Creates of concurrent requests get pairwise distinct ids; whenever no
\* Create is inside the store, the ids given out are exactly 1..N, the store
\* holds N tasks and the counter stands at N + 1, N the number of Creates.
ConcurrentCreatesDistinct ==
  /\ \A r1, r2 \in IdHolders : r1 # r2 => loc[r1].task.ID # loc[r2].task.ID
  /\ \A i, j \in 1..Len(created) : created[i] = created[j] => i = j
  /\ (\A r \in Reqs : pc[r] \notin {"c_put", "c_inc"}) =>
       /\ {created[k] : k \in 1..Len(created)} = 1..Len(created)
       /\ DOMAIN tasks = 1..Len(created)
       /\ nextID = Len(created) + 1

\* C4 witness: two Creates overlapped -- the request that arrived second took
\* the lock first -- and both have returned.
OvertakingCreates ==
  \E r1, r2 \in Reqs :
    /\ r1 < r2
    /\ pc[r1] = "send" /\ inp[r1].kind = "create" /\ loc[r1].task.ID = 2
    /\ pc[r2] \in {"send", "respond"} /\ inp[r2].kind = "create" /\ loc[r2].task.ID = 1
    /\ nextID = 3

BlockedProducerWaits ==
  /\ [](Len(logChan) <= LogCap)
  /\ [][\A r \in Reqs :
          (pc[r] = "send" /\ Len(logChan) = LogCap) => pc'[r] = "send"]_vars

\* a create request whose body decodes and names the given kind of title
CreatesWith(r, P(_)) ==
  /\ inp[r].kind = "create"
  /\ inp[r].body.ok
  /\ P(inp[r].body.task.Title)

IsEmpty(title) == title = <<>>

\* the step of handler r that answers 400 and changes neither store nor log
RejectedUntouched(r) ==
  /\ pc'[r] = "done"
  /\ status'[r].code = 400
  /\ tasks' = tasks
  /\ nextID' = nextID
  /\ logChan' = logChan
  /\ enqueued' = enqueued

\* C7: the handler of a create request with an empty title answers 400 in a
\* step that leaves the task map, the counter and the log channel as they
\* were.
EmptyTitleRejected ==
  [][\A r \in Reqs :
       (pc[r] = "handle" /\ CreatesWith(r, IsEmpty) /\ pc'[r] # "handle")
         => RejectedUntouched(r)]_vars

\* C7 witness: a create was answered "title required" while the store held a task.
EmptyTitleWasRejected ==
  \E r \in Reqs : status[r] = Response(400, "title required") /\ tasks # <<>>

\* C8 as stated: the handler of a create request with a blank title answers
\* 400 in a step that leaves the task map, the counter and the log channel
\* as they were.
BlankTitleRejected ==
  [][\A r \in Reqs :
       (pc[r] = "handle" /\ CreatesWith(r, IsBlank) /\ pc'[r] # "handle")
         => RejectedUntouched(r)]_vars

\* C8 amended: a create request with a blank title is not rejected: its
\* handler enters store.Create with the counter's value as id, the task is
\* stored under that id with the blank title, the counter moves on by one,
\* and one log entry with that title is enqueued.
BlankTitleAccepted ==
  /\ [][\A r \in Reqs :
          (pc[r] = "handle" /\ CreatesWith(r, IsBlank) /\ pc'[r] # "handle")
            => /\ pc'[r] = "c_put"
               /\ loc'[r].task.ID = nextID
               /\ loc'[r].task.Title = inp[r].body.task.Title]_vars
  /\ [](\A r \in Reqs :
          (CreatesWith(r, IsBlank) /\ pc[r] = "respond")
            => /\ loc[r].task.ID \in DOMAIN tasks
               /\ tasks[loc[r].task.ID].Title = inp[r].body.task.Title
               /\ nextID > loc[r].task.ID
               /\ \E k \in 1..Len(enqueued) :
                    /\ EntriesOf(r) = {k}
                    /\ enqueued[k].kind = "create"
                    /\ enqueued[k].title = inp[r].body.task.Title)

\* C8 witness: a task with a blank title is stored and its handler has sent its line.
BlankTitleStored ==
  \E r \in Reqs :
    /\ CreatesWith(r, IsBlank)
    /\ pc[r] = "respond"
    /\ IsBlank(tasks[loc[r].task.ID].Title)

\* C9: the lookup of an id the store does not hold answers 404 in a step
\* that leaves store and log channel as they were, and that handler never
\* sends an entry; the lookup of an id the store holds hands back the stored
\* task, and its handler sends one entry, naming that id, before it answers.
GetTaskOutcome ==
  /\ [][\A r \in Reqs :
          (pc[r] = "b_read" /\ pc'[r] # "b_read")
            => IF loc[r].id \in DOMAIN tasks
                 THEN /\ pc'[r] = "send"
                      /\ loc'[r].task = tasks[loc[r].id]
                      /\ tasks' = tasks /\ nextID' = nextID
                 ELSE /\ pc'[r] = "done"
                      /\ status'[r] = Response(404, "not found")
                      /\ tasks' = tasks /\ nextID' = nextID
                      /\ logChan' = logChan /\ enqueued' = enqueued]_vars
  /\ [](\A r \in Reqs :
          /\ status[r].code = 404 => EntriesOf(r) = {}
          /\ (inp[r].kind = "get" /\ pc[r] \in {"b_read", "send"}) => EntriesOf(r) = {}
          /\ (inp[r].kind = "get" /\ pc[r] = "respond")
               => /\ loc[r].task = tasks[loc[r].id]
                  /\ \E k \in 1..Len(enqueued) :
                       /\ EntriesOf(r) = {k}
                       /\ enqueued[k].kind = "get"
                       /\ enqueued[k].n = loc[r].id)

\* C9 witness: a lookup found its task and its handler has sent its line.
GetTaskFound ==
  \E r \in Reqs :
    /\ inp[r].kind = "get"
    /\ pc[r] = "respond"
    /\ loc[r].task.ID = loc[r].id
    /\ EntriesOf(r) # {}

\* C10: a handler sends nothing before its store call has returned and one
\* entry before it answers 200 or 201; a handler that answers 400 or 404
\* sends none.  The entry tells the result: the length of the list handed
\* back, the id looked up, the title of the task stored.
OneEntryPerServedCall ==
  \A r \in Reqs :
    /\ Cardinality(EntriesOf(r)) <= 1
    /\ pc[r] \in {"idle", "handle", "c_put", "c_inc", "b_read", "g_scan", "send", "panic"}
         => EntriesOf(r) = {}
    /\ status[r].code \in {200, 201} => Cardinality(EntriesOf(r)) = 1
    /\ status[r].code \in {400, 404} => EntriesOf(r) = {}
    /\ pc[r] = "respond" =>
         \E k \in 1..Len(enqueued) :
           /\ EntriesOf(r) = {k}
           /\ enqueued[k].kind = inp[r].kind
           /\ inp[r].kind = "list" => enqueued[k].n = Len(loc[r].result)
           /\ inp[r].kind = "get" => enqueued[k].n = loc[r].id
           /\ inp[r].kind = "create" =>
                /\ loc[r].task.ID \in DOMAIN tasks
                /\ enqueued[k].title = tasks[loc[r].task.ID].Title

\* C10 witness: a list that found a task has sent its line and not yet answered.
ListLoggedBeforeResponse ==
  \E r \in Reqs :
    /\ inp[r].kind = "list"
    /\ pc[r] = "respond"
    /\ Len(loc[r].result) >= 1

\* requests whose store.Create has returned and that still hold the task it returned
CreateReturned == {r \in Reqs : inp[r].kind = "create" /\ pc[r] \in {"send", "respond"}}

\* requests whose store.GetByID has found a task and that still hold it
LookupReturned == {r \in Reqs : inp[r].kind = "get" /\ pc[r] \in {"send", "respond"}}

\* C11: the task a Create returned stays in the store as it was returned: it
\* is under its id right after the return, no later step changes or removes
\* a stored task, and a GetByID of that id hands back an equal task (id,
\* title, completed, created_at).
CreatedTaskIsFound ==
  /\ [](\A r \in CreateReturned :
          /\ loc[r].task.ID \in DOMAIN tasks
          /\ tasks[loc[r].task.ID] = loc[r].task)
  /\ [](\A r \in CreateReturned : \A g \in LookupReturned :
          loc[g].id = loc[r].task.ID => loc[g].task = loc[r].task)
  /\ [][\A id \in DOMAIN tasks : id \in DOMAIN tasks' /\ tasks'[id] = tasks[id]]_vars

\* C11 witness: a lookup has handed back the task of a Create whose handler
\* still holds what Create returned.
LookupMeetsCreate ==
  \E r \in CreateReturned : \E g \in LookupReturned :
    /\ loc[g].id = loc[r].task.ID
    /\ loc[g].task.CreatedAt > 0

\* the tasks of the store that GetAll is to hand back for a filter
Wanted(filter) ==
  {tasks[id] : id \in {i \in DOMAIN tasks :
                         \/ filter = "nil"
                         \/ filter = "true" /\ tasks[i].Completed
                         \/ filter = "false" /\ ~tasks[i].Completed}}

\* C12: for every content of the store, whatever GetAll hands back holds
\* each wanted task once and nothing else -- all tasks without a filter, the
\* completed ones for true, the others for false -- and the lengths for true
\* and for false add up to the number of tasks created.  So does the result
\* a handler gets from its call.
GetAllPartition ==
  /\ [](\A filter \in {"nil", "true", "false"} :
          \A result \in GetAllResults(tasks, filter) :
            /\ {result[k] : k \in 1..Len(result)} = Wanted(filter)
            /\ \A i, j \in 1..Len(result) : result[i].ID = result[j].ID => i = j)
  /\ [](\A yes \in GetAllResults(tasks, "true") : \A no \in GetAllResults(tasks, "false") :
          Len(yes) + Len(no) = Len(created))
  /\ [][\A r \in Reqs :
          (pc[r] = "g_scan" /\ pc'[r] # "g_scan")
            => /\ {loc'[r].result[k] : k \in 1..Len(loc'[r].result)} = Wanted(loc[r].filter)
               /\ Len(loc'[r].result) = Cardinality(Wanted(loc[r].filter))]_vars

\* C12 witness: a list with the filter true has handed back a completed task.
FilteredListReturned ==
  \E r \in Reqs :
    /\ inp[r].kind = "list"
    /\ pc[r] \in {"send", "respond"}
    /\ loc[r].filter = "true"
    /\ Len(loc[r].result) = 1
    /\ loc[r].result[1].Completed

\* C13: once the signal has come, main always gets to close the log channel
\* and to exit, also when the drain timed out (handlers still in flight,
\* blocked on the full buffer or not); the timed-out drain is reported and
\* the shutdown goes on as it does otherwise.
ShutdownCompletes ==
  /\ (coord = "shutdown") ~> (coord = "exited" /\ closed)
  /\ drainErr ~> (coord = "exited" /\ closed)
  /\ [](drainErr => coord \in {"close", "final", "exited"})

\* C13 witness: main has exited after a timed-out drain that left a handler
\* blocked on the full buffer.
ExitedAfterTimeout ==
  /\ coord = "exited"
  /\ drainErr
  /\ closed
  /\ \E r \in Reqs : pc[r] = "send" /\ Len(logChan) = LogCap

CreateHalfDone == \E r \in Reqs : pc[r] \in {"c_put", "c_inc"}

\* the map holds the tasks of whole Creates only: ids 1 .. nextID - 1
WholeCreatesOnly == DOMAIN tasks = 1..(nextID - 1)

\* C15: GetAll and GetByID read the map at one instant inside their call, with
\* the read lock held; at that instant no Create is half done, the map holds
\* the tasks of whole Creates only, and what the call hands back is that
\* content (filtered, or the task under the id).  Writer and readers never
\* hold the lock together; readers may.
ReadsSeeWholeCreates ==
  /\ [](mu.w # 0 => mu.r = {})
  /\ [](\A r \in Reqs :
          pc[r] \in {"b_read", "g_scan"}
            => r \in mu.r /\ ~CreateHalfDone /\ WholeCreatesOnly)
  /\ [][\A r \in Reqs :
          (pc[r] = "g_scan" /\ pc'[r] # "g_scan")
            => /\ {loc'[r].result[k] : k \in 1..Len(loc'[r].result)} = Wanted(loc[r].filter)
               /\ tasks' = tasks]_vars
  /\ [][\A r \in Reqs :
          (pc[r] = "b_read" /\ pc'[r] # "b_read")
            => /\ loc[r].id \in DOMAIN tasks => loc'[r].task = tasks[loc[r].id]
               /\ loc[r].id \notin DOMAIN tasks => status'[r].code = 404
               /\ tasks' = tasks]_vars

\* C15 witness: a list read the empty map before a Create took effect and has
\* not yet answered; the Create has returned since.
SnapshotBeforeCreate ==
  \E r, c \in Reqs :
    /\ inp[r].kind = "list" /\ pc[r] = "send" /\ loc[r].result = <<>>
    /\ inp[c].kind = "create" /\ pc[c] \in {"send", "respond"}
    /\ DOMAIN tasks = {1}

\* the statements of request q inside the store, with the lock held
StoreStep(q) ==
  StoreCreatePut(q) \/ StoreCreateReturn(q) \/ StoreGetByIDRead(q) \/ StoreGetAllScan(q)

\* the start of handler q
HandlerStart(q) ==
  \/ CreateTaskReject(q) \/ CreateTask(q)
  \/ GetTaskByIDReject(q) \/ GetTaskByID(q)
  \/ GetTasks(q)

\* C16: a handler at its send (blocked on the full buffer or not) holds no
\* lock of the store, nor does one before or after its store call; whoever
\* holds the lock is inside the store and can take its next statement; and
\* when the lock is free a waiting handler can enter.  So a blocked send
\* keeps no other request out of the store.
NoLockWhileSending ==
  /\ [](\A r \in Reqs :
          pc[r] \in {"idle", "handle", "send", "respond", "done", "panic"}
            => mu.w # r /\ r \notin mu.r)
  /\ [](\A q \in Reqs :
          (Alive /\ pc[q] \in {"c_put", "c_inc", "b_read", "g_scan"})
            => /\ mu.w = q \/ q \in mu.r
               /\ ENABLED StoreStep(q))
  /\ [](\A q \in Reqs :
          (Alive /\ pc[q] = "handle" /\ mu.w = 0 /\ mu.r = {}) => ENABLED HandlerStart(q))

\* C16 witness: one handler is at its send, its Create done, while another
\* request holds the write lock inside Create.
LockFreeAtSend ==
  \E r, q \in Reqs :
    /\ pc[r] = "send" /\ inp[r].kind = "create"
    /\ pc[q] = "c_put" /\ mu.w = q

\* C17: Logger does not end while the channel is open; it ends, printing its
\* stopped line, only when the channel is closed, the buffer is empty and all
\* that was enqueued is printed; and once the channel is closed Logger, as
\* long as the process lives, gets to print what is left and to end.
LoggerLifecycle ==
  /\ [](lpc = "stopped" => closed /\ logChan = <<>> /\ written = enqueued)
  /\ [](stopLine <=> lpc = "stopped")
  /\ closed ~> (coord = "exited" \/ (lpc = "stopped" /\ written = enqueued))

\* C17 witness: Logger has ended on the closed channel with an entry printed,
\* and the process lives.
LoggerDrainedAndStopped ==
  /\ lpc = "stopped"
  /\ stopLine
  /\ Len(written) >= 1
  /\ coord = "final"

\* C18: when Shutdown returned without the timeout, no handler is in flight
\* from then on: every handler that was started has sent its line (or has
\* answered with an error) before the channel is closed, nothing is enqueued
\* on the closed channel and no handler panics in its send.
DrainedThenClosed ==
  /\ [](coord \in {"close", "final", "exited"} /\ ~drainErr => InFlight = {})
  /\ [](~drainErr => \A r \in Reqs : pc[r] # "panic")
  /\ [](closed /\ ~drainErr =>
          \A r \in Reqs :
            /\ pc[r] \in {"idle", "done"}
            /\ status[r].code \in {200, 201} => Cardinality(EntriesOf(r)) = 1)
  /\ [][closed /\ ~drainErr => enqueued' = enqueued /\ pc' = pc]_vars

\* C18 witness: the channel is closed after a drain without timeout, and both
\* requests were served, their entries enqueued before.
ClosedAfterCleanDrain ==
  /\ closed
  /\ ~drainErr
  /\ \A r \in Reqs : pc[r] = "done" /\ status[r].code \in {200, 201}
  /\ Len(enqueued) = MaxReqs

\* C19: Create gives the task the counter as its id and the clock as its
\* time, whatever id and created_at the body names, and keeps the body's
\* title and completed; the task goes under a key that was not in the map, so
\* every task stored before stays as it was.
ClientIdIgnored ==
  /\ [][\A r \in Reqs :
          (pc[r] = "handle" /\ pc'[r] = "c_put")
            => /\ loc'[r].task.ID = nextID
               /\ loc'[r].task.CreatedAt = clock'
               /\ loc'[r].task.Title = inp[r].body.task.Title
               /\ loc'[r].task.Completed = inp[r].body.task.Completed]_vars
  /\ [][\A r \in Reqs :
          (pc[r] = "c_put" /\ pc'[r] = "c_inc")
            => /\ loc[r].task.ID = nextID
               /\ nextID \notin DOMAIN tasks
               /\ DOMAIN tasks' = DOMAIN tasks \cup {nextID}
               /\ \A id \in DOMAIN tasks : tasks'[id] = tasks[id]]_vars
  /\ [](\A id \in DOMAIN tasks : tasks[id].ID = id /\ tasks[id].CreatedAt \in 1..clock)

\* C19 witness: a create whose body names the id 1 of a stored task has got
\* the id 2, and the task 1 is still the other one.
CreateNamingStoredId ==
  \E r \in Reqs :
    /\ inp[r].kind = "create"
    /\ inp[r].body.task.ID = 1
    /\ pc[r] \in {"send", "respond"}
    /\ loc[r].task.ID = 2
    /\ DOMAIN tasks = {1, 2}
    /\ tasks[1].Title # inp[r].body.task.Title

\* values of ?completed= that are there and that ParseBool does not accept
InvalidParams ==
  Params \ {"", "1", "t", "T", "TRUE", "true", "True", "0", "f", "F", "FALSE", "false", "False"}

\* list requests with such a value
InvalidLists == {r \in Reqs : inp[r].kind = "list" /\ inp[r].param \in InvalidParams}

\* C20: a list whose completed is there and is no boolean gets the filter of
\* a list without completed: it is not answered 400, GetAll hands it every
\* task, it sends one line with that number, and it is answered 200.
InvalidFilterListsAll ==
  /\ [](\A p \in InvalidParams : ParseFilter(p) = ParseFilter(""))
  /\ [](\A r \in InvalidLists :
          /\ pc[r] \in {"g_scan", "send", "respond"} => loc[r].filter = "nil"
          /\ Cardinality(EntriesOf(r)) = IF pc[r] = "respond" THEN 1 ELSE 0)
  /\ [][\A r \in InvalidLists :
          /\ pc[r] = "handle" => pc'[r] \in {"handle", "g_scan"}
          /\ (pc[r] = "g_scan" /\ pc'[r] # "g_scan")
               => /\ loc'[r].result \in GetAllResults(tasks, ParseFilter(""))
                  /\ {loc'[r].result[k] : k \in 1..Len(loc'[r].result)}
                       = {tasks[id] : id \in DOMAIN tasks}
                  /\ Len(loc'[r].result) = Cardinality(DOMAIN tasks)
          /\ (pc[r] = "send" /\ pc'[r] = "respond")
               => enqueued' = Append(enqueued, Entry("list", Len(loc[r].result), <<>>, r))
          /\ (pc[r] # "done" /\ pc'[r] = "done")
               => pc[r] = "respond" /\ status'[r] = Response(200, "")]_vars

\* C20 witness: a list with completed=abc has been handed a completed task
\* and has sent its line.
InvalidFilterGotAll ==
  \E r \in Reqs :
    /\ inp[r].kind = "list"
    /\ inp[r].param = "abc"
    /\ pc[r] = "respond"
    /\ Len(loc[r].result) = 1
    /\ loc[r].result[1].Completed

====
